---- MODULE Spec2Model ----
(***************************************************************************)
(* Model of md-ui: the playback scheduler of MolecularDynamicsPlayground   *)
(* (src/src/pages/Meta.tsx) with the uploads of FileUploader               *)
(* (src/unnamed/part_007), the compute dispatch of runComputePass          *)
(* (src/src/gpu/computePipeline.ts), the kernel of atomUpdate.wgsl, the    *)
(* resource life cycle and the failures of GPUAtomRenderer                 *)
(* (src/unnamed/part_008), and the chain metadata and selection of         *)
(* MolecularView (src/unnamed/part_007).  Each specification runs one of   *)
(* these and holds the variables of the others at their idle values.       *)
(*                                                                         *)
(* React scheduling as modelled here:                                      *)
(*  - a click handler (play/pause, slider, route change) commits its state *)
(*    update and flushes the effects of that commit in the same task, so   *)
(*    it is one action;                                                    *)
(*  - onDataLoaded is called from a setTimeout callback: the commit that   *)
(*    replaces the trajectory is rendered first and its passive effects    *)
(*    run afterwards (FlushEffects).  React flushes pending passive        *)
(*    effects before it processes any later update, so no other action of  *)
(*    the playground is enabled while effects are pending.                 *)
(***************************************************************************)
EXTENDS Integers, Sequences, FiniteSets, TLC

VARIABLES
    \* ---- MolecularDynamicsPlayground ----
    mounted,        \* the playground view is mounted
    trajectory,     \* [id, n, numAtoms, frameLens]: identity of the trajectory object,
                    \*   frames.length, metadata.num_atoms, the length of each frame
    currentFrame,   \* useState(0)
    isPlaying,      \* useState(false)
    trajDep,        \* trajectory id the [trajectory] effect last ran for (-1: never)
    timerDeps,      \* <<isPlaying, totalFrames>> the timer effect last ran for (<<>>: never)
    timers,         \* active setInterval timers: set of [id, n], n = captured totalFrames
    effInterval,    \* `interval` of the last run of the timer effect (-1: undefined)
    lastEvent,      \* history: the handler that made the last step
    prevFrame,      \* history: currentFrame before the last step
    isLoading,      \* useState(false)
    reading,        \* FileReaders of FileUploader that have not fired an event yet
    parsing,        \* setTimeout callbacks of reader.onload that have not run yet
    \* ---- runComputePass ----
    cpAtomCount,    \* the atomCount argument
    cpDispatched,   \* the dispatchWorkgroups calls recorded by the pass encoder
    \* ---- GPUAtomRenderer ----
    rMounted,       \* the renderer component is mounted
    enabled,        \* prop `enabled`
    atoms,          \* prop `atoms`: [id, len], identity of the array and atoms.length
    meshRef,        \* meshRef.current is an InstancedMesh (FALSE: null)
    pendingInits,   \* init() calls waiting on `await initWebGPU()`
    startedInits,   \* init() calls started so far
    nDevices,       \* GPUDevices handed out by requestDevice so far (none is ever destroyed)
    gpuContext,     \* state gpuContext: 0 (null) or the device of the context
    bufs,           \* every GPUBuffer created so far: [kind, state, content]
    inputBufferRef, \* inputBufferRef.current: 0 (null) or an index of bufs
    outputBufferRef,\* outputBufferRef.current
    pipelineRef,    \* pipelineRef.current: 0 (null) or the device the pipeline was built on
    bindGroupRef,   \* bindGroupRef.current: [in, out], NoBindGroup when null
    setups,         \* setupPipeline() calls suspended at an await: sequence of [dev]
    readbacks,      \* updateMesh() calls suspended at mapAsync: sequence of
                    \*   [buf, atomsId, len, dev]
    meshShown,      \* what the mesh was last updated from: [content, atomsId]
    dispatchLog,    \* history: what the bind group of the last runComputePass named
    lost,           \* the devices whose `lost` promise has resolved
    uncaught,       \* history: the async functions that ended in an unhandled rejection
    buildFailure,   \* history: "none", "failed" once a setupPipeline() has failed,
                    \*          "dispatched" once a dispatch has been issued after that
    \* ---- atomUpdate.wgsl, one dispatch ----
    atomsIn,        \* binding 0: array<vec4<f32>>, read
    atomsOut,       \* binding 1: array<vec4<f32>>, read_write
    kStride,        \* the order the device runs the invocations in
    kStep,          \* invocations of the dispatch that have run
    kStored,        \* history: the indices a store to atomsOut was issued for
    \* ---- MolecularView ----
    viewAtoms,      \* trajectory?.frames?.[currentFrame]: [defined, list]
    chainMetadataMap, \* the memoized map of chain id to ChainInfo
    selectedChain,  \* useState<string | null>(null)
    viewEvent,      \* history: what made the last step of the view
    \* ---- chainMetadataMap / calculateChainInfo, called on one frame ----
    gFrame,         \* the atoms array handed to the computation
    gFrame0,        \* history: gFrame as it was before the first call
    gResults        \* the maps returned by the calls so far

playVars == <<mounted, trajectory, currentFrame, isPlaying, trajDep, timerDeps,
              timers, effInterval, lastEvent, prevFrame, isLoading, reading, parsing>>
cpVars == <<cpAtomCount, cpDispatched>>
gpuVars == <<rMounted, enabled, atoms, meshRef, pendingInits, startedInits, nDevices,
             gpuContext, bufs, inputBufferRef, outputBufferRef, pipelineRef,
             bindGroupRef, setups, readbacks, meshShown, dispatchLog,
             lost, uncaught, buildFailure>>
kernelVars == <<atomsIn, atomsOut, kStride, kStep, kStored>>
viewVars == <<viewAtoms, chainMetadataMap, selectedChain, viewEvent>>
groupVars == <<gFrame, gFrame0, gResults>>
vars == <<playVars, cpVars, gpuVars, kernelVars, viewVars, groupVars>>

\* ---------------------------------------------------------------- bounds
MaxFrames == 5          \* frame count of the bundled default trajectory: 1..MaxFrames
MaxFiles == 2           \* files whose upload is under way at the same time
MaxLines == 2           \* lines of an uploaded file: 0..MaxLines
MaxAtomCount == 200     \* atom counts 1..MaxAtomCount are enumerated for runComputePass
MaxAtomSets == 2        \* atoms arrays the renderer is given, one after the other
MaxInits == 2           \* init() calls of the renderer
MaxStaging == 2         \* staging buffers created by readbacks
MaxParticles == 66      \* the kernel is dispatched for 1..MaxParticles atoms

\* odd strides: the orders the invocations of a dispatch are run in
InvocationStrides == {1, 3, 63}

\* the input positions enumerated per length
PositionPatterns == {1, 2}

MaxChainAtoms == 3      \* atoms of a frame handed to MolecularView: 0..MaxChainAtoms

\* the atoms a frame of the view is made of, as parsePDB builds them: no
\* residue_index
AtomKinds ==
    {[chain |-> "A", name |-> "CA", residue |-> "ALA", residue_index |-> <<>>],
     [chain |-> "A", name |-> "N", residue |-> "ALA", residue_index |-> <<>>],
     [chain |-> "B", name |-> "CA", residue |-> "GLY", residue_index |-> <<>>],
     [chain |-> "", name |-> "CA", residue |-> "GLY", residue_index |-> <<>>]}

MaxCalls == 2           \* evaluations of the chain metadata on the same frame
MaxGroupAtoms == 3      \* atoms a frame has besides its fixed head: 0..MaxGroupAtoms

\* the atoms of the frames the chain metadata is computed for; "144" is a
\* residue name that is a canonical array index
GroupAtomKinds ==
    [chain : {"A", "B"}, name : {"CA"}, residue : {"ALA", "GLY", "144"},
     residue_index : {<<>>, <<0>>, <<2>>}]

\* a head of five atoms of chain "A" with five more residue names
FiveResidues ==
    [i \in 1..5 |-> [chain |-> "A", name |-> "CA",
                     residue |-> <<"ARG", "ASP", "CYS", "GLU", "HIS">>[i],
                     residue_index |-> <<>>]]

\* atom counts enumerated besides 1..MaxAtomCount
AtomCountSamples == {1, 63, 64, 65, 10000}

\* atoms.length: the renderer only tells an empty array from a non-empty one
AtomLengths == {0, 1}

\* ------------------------------------------------- program constants
workgroupSize == 64

\* =======================================================================
\*  MolecularDynamicsPlayground
\* =======================================================================

\* const totalFrames = trajectory.frames?.length || 0
totalFrames == trajectory.n

\* parsePDB returns a fresh object with frames: [atoms], i.e. exactly one frame
ParsedFrames == 1

\* The lines of a file as parsePDB tells them apart: those that start with
\* ATOM or HETATM, and the others
LineKinds == {"ATOM", "HETATM", "REMARK"}
Files == UNION {[1..k -> LineKinds] : k \in 0..MaxLines}

\* atoms: one atom is pushed per line that starts with ATOM or HETATM
AtomLines(lines) == {i \in 1..Len(lines) : lines[i] \in {"ATOM", "HETATM"}}

\* parsePDB(content, fileName) as the object `id`: num_frames 1,
\* num_atoms atoms.length, frames [atoms]
ParsePDBBug(lines, id) ==
    [id |-> id, n |-> ParsedFrames, numAtoms |-> Len(lines),
     frameLens |-> << Cardinality(AtomLines(lines)) >>]
ParsePDB(lines, id) ==
    [id |-> id, n |-> ParsedFrames, numAtoms |-> Cardinality(AtomLines(lines)),
     frameLens |-> << Cardinality(AtomLines(lines)) >>]

\* What parsePDB had built when it threw: an object nothing was returned of
PartialTrajectory(id) == [id |-> id, n |-> 0, numAtoms |-> 0, frameLens |-> <<>>]

\* The bundled trajectory (data/4HHB_animated.json) with n frames, each of
\* metadata.num_atoms atoms
DefaultNumAtoms == 2
DefaultTrajectory(n) ==
    [id |-> 0, n |-> n, numAtoms |-> DefaultNumAtoms,
     frameLens |-> [f \in 1..n |-> DefaultNumAtoms]]

\* try { const data = parsePDB(...); onDataLoaded(data); } catch (e) { ... }
\* on the store `t`: parsed is [ok, data], ok FALSE when parsePDB threw
StoreAfterParseBug(t, parsed) == parsed.data
StoreAfterParse(t, parsed) == IF parsed.ok THEN parsed.data ELSE t

InitPlay ==
    /\ mounted = TRUE
    /\ trajectory \in {DefaultTrajectory(n) : n \in 1..MaxFrames}
    /\ isLoading = FALSE
    /\ reading = 0
    /\ parsing = 0
    /\ currentFrame = 0
    /\ isPlaying = FALSE
    /\ trajDep = -1
    /\ timerDeps = <<>>
    /\ timers = {}
    /\ effInterval = -1
    /\ lastEvent = "init"
    /\ prevFrame = 0

\* setInterval returns a handle that is not in use
FreshTimerId(ts) == CHOOSE i \in 0..Cardinality(ts) : \A t \in ts : t.id # i

\* clearInterval(interval): clearing undefined or a dead handle is a no-op
ClearIntervalBug(ts, h) == ts
ClearInterval(ts, h) == {t \in ts : t.id # h}

\* The effect of Meta.tsx:595-603 for a commit that rendered (playing, n):
\* the cleanup of the previous run, then the body.
TimerEffect(playing, n) ==
    LET cleared == ClearInterval(timers, effInterval)
        h == FreshTimerId(cleared)
    IN  /\ timerDeps' = <<playing, n>>
        /\ IF playing
           THEN /\ timers' = cleared \cup {[id |-> h, n |-> n]}
                /\ effInterval' = h
           ELSE /\ timers' = cleared
                /\ effInterval' = -1

TimerEffectIfDeps(playing, n) ==
    IF timerDeps # <<playing, n>>
    THEN TimerEffect(playing, n)
    ELSE UNCHANGED <<timerDeps, timers, effInterval>>

EffectsPending ==
    mounted /\ (trajDep # trajectory.id \/ timerDeps # <<isPlaying, totalFrames>>)

\* The effect on [trajectory], Meta.tsx:590-593
TrajectoryEffectBug ==
    /\ currentFrame' = currentFrame
    /\ isPlaying' = isPlaying
    /\ trajDep' = trajectory.id
TrajectoryEffect ==
    /\ currentFrame' = 0
    /\ isPlaying' = TRUE
    /\ trajDep' = trajectory.id

\* Passive effects of the last commit, in declaration order: the effect on
\* [trajectory], then the timer effect on [isPlaying, totalFrames], which sees
\* the values of the commit it belongs to.
FlushEffects ==
    /\ EffectsPending
    /\ IF trajDep # trajectory.id
       THEN TrajectoryEffect
       ELSE UNCHANGED <<currentFrame, isPlaying, trajDep>>
    /\ TimerEffectIfDeps(isPlaying, totalFrames)
    /\ lastEvent' = "effects"
    /\ prevFrame' = currentFrame
    /\ UNCHANGED <<mounted, trajectory>>
    /\ UNCHANGED <<isLoading, reading, parsing>>
    /\ UNCHANGED <<cpVars, gpuVars, kernelVars, viewVars, groupVars>>

\* The advance of the setInterval callback
AdvanceBug(prev, n) == IF prev + 1 < n THEN prev + 1 ELSE prev
Advance(prev, n) == (prev + 1) % n

\* setInterval callback: setCurrentFrame((prev) => (prev + 1) % totalFrames).
\* It runs for as long as its timer exists; React drops the update of an
\* unmounted component.
Tick ==
    /\ ~EffectsPending
    /\ \E t \in timers :
        currentFrame' = IF mounted THEN Advance(currentFrame, t.n) ELSE currentFrame
    /\ lastEvent' = "tick"
    /\ prevFrame' = currentFrame
    /\ UNCHANGED <<mounted, trajectory, isPlaying, trajDep, timerDeps, timers, effInterval>>
    /\ UNCHANGED <<isLoading, reading, parsing>>
    /\ UNCHANGED <<cpVars, gpuVars, kernelVars, viewVars, groupVars>>

\* Controls: onClick={() => setIsPlaying(!isPlaying)}
TogglePlay ==
    /\ mounted /\ ~EffectsPending
    /\ isPlaying' = ~isPlaying
    /\ TimerEffectIfDeps(~isPlaying, totalFrames)
    /\ lastEvent' = "toggle"
    /\ prevFrame' = currentFrame
    /\ UNCHANGED <<mounted, trajectory, currentFrame, trajDep>>
    /\ UNCHANGED <<isLoading, reading, parsing>>
    /\ UNCHANGED <<cpVars, gpuVars, kernelVars, viewVars, groupVars>>

\* Controls: range input min 0, max totalFrames - 1, onChange -> setCurrentFrame
SliderChange ==
    /\ mounted /\ ~EffectsPending
    /\ \E v \in 0..(totalFrames - 1) : currentFrame' = v
    /\ lastEvent' = "slider"
    /\ prevFrame' = currentFrame
    /\ UNCHANGED <<mounted, trajectory, isPlaying, trajDep, timerDeps, timers, effInterval>>
    /\ UNCHANGED <<isLoading, reading, parsing>>
    /\ UNCHANGED <<cpVars, gpuVars, kernelVars, viewVars, groupVars>>

\* The object parsePDB returns is a new one
FreshTrajectoryId == IF trajectory.id = 1 THEN 2 ELSE 1

\* onUploadEnd: setIsLoading(false); React drops it on an unmounted component
UploadEnd == isLoading' = IF mounted THEN FALSE ELSE isLoading

\* FileUploader onDrop (part_007:13-41): per accepted file onUploadStart,
\* a new FileReader and readAsText
DropFiles ==
    /\ mounted /\ ~EffectsPending
    /\ \E k \in 1..(MaxFiles - reading - parsing) : reading' = reading + k
    /\ isLoading' = TRUE
    /\ lastEvent' = "drop"
    /\ prevFrame' = currentFrame
    /\ UNCHANGED <<mounted, trajectory, currentFrame, isPlaying, trajDep, timerDeps,
                   timers, effInterval, parsing>>
    /\ UNCHANGED <<cpVars, gpuVars, kernelVars, viewVars, groupVars>>

\* reader.onabort (19)
ReadAbort ==
    /\ ~EffectsPending
    /\ reading > 0
    /\ reading' = reading - 1
    /\ UploadEnd
    /\ lastEvent' = "abort"
    /\ prevFrame' = currentFrame
    /\ UNCHANGED <<mounted, trajectory, currentFrame, isPlaying, trajDep, timerDeps,
                   timers, effInterval, parsing>>
    /\ UNCHANGED <<cpVars, gpuVars, kernelVars, viewVars, groupVars>>

\* reader.onerror (20)
ReadError ==
    /\ ~EffectsPending
    /\ reading > 0
    /\ reading' = reading - 1
    /\ UploadEnd
    /\ lastEvent' = "error"
    /\ prevFrame' = currentFrame
    /\ UNCHANGED <<mounted, trajectory, currentFrame, isPlaying, trajDep, timerDeps,
                   timers, effInterval, parsing>>
    /\ UNCHANGED <<cpVars, gpuVars, kernelVars, viewVars, groupVars>>

\* reader.onload (21-38): the parse is put off by setTimeout(..., 100)
ReadLoaded ==
    /\ ~EffectsPending
    /\ reading > 0
    /\ reading' = reading - 1
    /\ parsing' = parsing + 1
    /\ lastEvent' = "read"
    /\ prevFrame' = currentFrame
    /\ UNCHANGED <<mounted, trajectory, currentFrame, isPlaying, trajDep, timerDeps,
                   timers, effInterval, isLoading>>
    /\ UNCHANGED <<cpVars, gpuVars, kernelVars, viewVars, groupVars>>

\* The timeout callback when parsePDB returns: onDataLoaded(data) =
\* setTrajectory(data), then onUploadEnd.  The commit renders the new
\* trajectory with the state of before, effects are pending.
LoadTrajectory ==
    /\ ~EffectsPending
    /\ parsing > 0
    /\ parsing' = parsing - 1
    /\ \E lines \in Files :
        trajectory' = IF mounted
                      THEN StoreAfterParse(trajectory,
                               [ok |-> TRUE, data |-> ParsePDB(lines, FreshTrajectoryId)])
                      ELSE trajectory
    /\ UploadEnd
    /\ lastEvent' = "load"
    /\ prevFrame' = currentFrame
    /\ UNCHANGED <<mounted, currentFrame, isPlaying, trajDep, timerDeps, timers, effInterval,
                   reading>>
    /\ UNCHANGED <<cpVars, gpuVars, kernelVars, viewVars, groupVars>>

\* The timeout callback when parsePDB throws: the catch logs and alerts,
\* then onUploadEnd
ParseThrows ==
    /\ ~EffectsPending
    /\ parsing > 0
    /\ parsing' = parsing - 1
    /\ trajectory' = IF mounted
                     THEN StoreAfterParse(trajectory,
                              [ok |-> FALSE, data |-> PartialTrajectory(FreshTrajectoryId)])
                     ELSE trajectory
    /\ UploadEnd
    /\ lastEvent' = "parseError"
    /\ prevFrame' = currentFrame
    /\ UNCHANGED <<mounted, currentFrame, isPlaying, trajDep, timerDeps, timers, effInterval,
                   reading>>
    /\ UNCHANGED <<cpVars, gpuVars, kernelVars, viewVars, groupVars>>

\* Leaving the /md route unmounts the playground: the cleanup of the timer
\* effect runs, the pending effects of an unfinished commit do not.
Unmount ==
    /\ mounted
    /\ mounted' = FALSE
    /\ timers' = ClearInterval(timers, effInterval)
    /\ lastEvent' = "unmount"
    /\ prevFrame' = currentFrame
    /\ UNCHANGED <<trajectory, currentFrame, isPlaying, trajDep, timerDeps, effInterval>>
    /\ UNCHANGED <<isLoading, reading, parsing>>
    /\ UNCHANGED <<cpVars, gpuVars, kernelVars, viewVars, groupVars>>

\* =======================================================================
\*  runComputePass
\* =======================================================================

\* Math.ceil(atomCount / workgroupSize)
NumWorkgroupsBug(atomCount) == atomCount \div workgroupSize
NumWorkgroups(atomCount) ==
    IF atomCount % workgroupSize = 0
    THEN atomCount \div workgroupSize
    ELSE atomCount \div workgroupSize + 1

InitCp ==
    /\ cpAtomCount \in (1..MaxAtomCount) \cup AtomCountSamples
    /\ cpDispatched = <<>>

IdleCp ==
    /\ cpAtomCount = 0
    /\ cpDispatched = <<>>

\* One call of runComputePass: one pass, one dispatchWorkgroups, one submit
RunComputePass ==
    /\ cpAtomCount > 0
    /\ cpDispatched = <<>>
    /\ cpDispatched' = Append(cpDispatched, NumWorkgroups(cpAtomCount))
    /\ UNCHANGED cpAtomCount
    /\ UNCHANGED <<playVars, gpuVars, kernelVars, viewVars, groupVars>>

IdlePlay ==
    /\ mounted = FALSE
    /\ trajectory = DefaultTrajectory(1)
    /\ isLoading = FALSE
    /\ reading = 0
    /\ parsing = 0
    /\ currentFrame = 0
    /\ isPlaying = FALSE
    /\ trajDep = 0
    /\ timerDeps = <<FALSE, 1>>
    /\ timers = {}
    /\ effInterval = -1
    /\ lastEvent = "init"
    /\ prevFrame = 0

\* =======================================================================
\*  GPUAtomRenderer
\* =======================================================================
\* A buffer of bufs is [kind, state, content]:
\*   kind    "in" | "out" | "staging"
\*   state   "live" | "destroyed"; a staging buffer is "mapPending" from its
\*           mapAsync call on, and "abandoned" when updateMesh has ended
\*           without reaching unmap() and destroy()
\*   content the id of the atoms array whose positions the buffer holds,
\*           0 for a buffer nothing has been written to
\* The device queue runs the submitted commands in order, so a copy sees what
\* the dispatches submitted before it have written: a dispatch acts at once.

NoBindGroup == [in |-> 0, out |-> 0]
NoMesh == [content |-> 0, atomsId |-> 0]

IsLive(bs, i) == i # 0 /\ bs[i].state = "live"

\* ref.current?.destroy()
Destroy(bs, i) ==
    IF i = 0 THEN bs ELSE [bs EXCEPT ![i].state = "destroyed", ![i].content = 0]

\* updateMesh() ends by an exception before stagingBuffer.unmap() and
\* stagingBuffer.destroy(): the staging buffer stays allocated
Abandon(bs, i) == [bs EXCEPT ![i].state = "abandoned", ![i].content = 0]

\* The cleanup of the init effect, part_008:252-256
InitCleanup(bs) == Destroy(Destroy(bs, inputBufferRef), outputBufferRef)

\* What the buffer effect (263-292) does to its predecessors' buffers before
\* it stores the new pair in the refs: nothing.
ReleaseOnRebuild(bs) == bs

\* The buffer effect, run for a commit with context ctx and atoms a:
\* createStorageBuffer writes the positions of a into a new input buffer, the
\* output buffer is created unwritten.
BufferEffectRuns(ctx, a) == ctx # 0 /\ a.len # 0
BuffersAfterEffect(ctx, a) ==
    IF BufferEffectRuns(ctx, a)
    THEN ReleaseOnRebuild(bufs) \o
         << [kind |-> "in", state |-> "live", content |-> a.id],
            [kind |-> "out", state |-> "live", content |-> 0] >>
    ELSE bufs
InputRefAfterEffect(ctx, a) ==
    IF BufferEffectRuns(ctx, a) THEN Len(bufs) + 1 ELSE inputBufferRef
OutputRefAfterEffect(ctx, a) ==
    IF BufferEffectRuns(ctx, a) THEN Len(bufs) + 2 ELSE outputBufferRef

\* The pipeline effect (298-351): setupPipeline() is started and suspends at
\* its first await unless the context or a buffer ref is null.
SetupsAfterEffect(ctx, a) ==
    IF ctx # 0 /\ InputRefAfterEffect(ctx, a) # 0 /\ OutputRefAfterEffect(ctx, a) # 0
    THEN Append(setups, [dev |-> ctx])
    ELSE setups

\* The effects on [gpuContext, atoms] of a commit with context ctx and atoms a
ContextEffects(ctx, a) ==
    /\ bufs' = BuffersAfterEffect(ctx, a)
    /\ inputBufferRef' = InputRefAfterEffect(ctx, a)
    /\ outputBufferRef' = OutputRefAfterEffect(ctx, a)
    /\ setups' = SetupsAfterEffect(ctx, a)

InitGpu ==
    /\ rMounted = TRUE
    /\ enabled = TRUE
    /\ atoms \in {[id |-> 1, len |-> l] : l \in AtomLengths}
    /\ meshRef = FALSE
    /\ pendingInits = 1
    /\ startedInits = 1
    /\ nDevices = 0
    /\ gpuContext = 0
    /\ bufs = <<>>
    /\ inputBufferRef = 0
    /\ outputBufferRef = 0
    /\ pipelineRef = 0
    /\ bindGroupRef = NoBindGroup
    /\ setups = <<>>
    /\ readbacks = <<>>
    /\ meshShown = NoMesh
    /\ dispatchLog = "none"
    /\ lost = {}
    /\ uncaught = {}
    /\ buildFailure = "none"

IdleGpu ==
    /\ rMounted = FALSE
    /\ enabled = FALSE
    /\ atoms = [id |-> 1, len |-> 0]
    /\ meshRef = FALSE
    /\ pendingInits = 0
    /\ startedInits = 0
    /\ nDevices = 0
    /\ gpuContext = 0
    /\ bufs = <<>>
    /\ inputBufferRef = 0
    /\ outputBufferRef = 0
    /\ pipelineRef = 0
    /\ bindGroupRef = NoBindGroup
    /\ setups = <<>>
    /\ readbacks = <<>>
    /\ meshShown = NoMesh
    /\ dispatchLog = "none"
    /\ lost = {}
    /\ uncaught = {}
    /\ buildFailure = "none"

\* `await initWebGPU()` returns a context with a new device: setGpuContext
\* commits it and the effects on [gpuContext, atoms] run.  On an unmounted
\* component setGpuContext does nothing; the device exists all the same.
InitResolves ==
    /\ pendingInits > 0
    /\ pendingInits' = pendingInits - 1
    /\ nDevices' = nDevices + 1
    /\ IF rMounted
       THEN /\ gpuContext' = nDevices + 1
            /\ ContextEffects(nDevices + 1, atoms)
       ELSE UNCHANGED <<gpuContext, bufs, inputBufferRef, outputBufferRef, setups>>
    /\ UNCHANGED <<rMounted, enabled, atoms, meshRef, startedInits, pipelineRef,
                   bindGroupRef, readbacks, meshShown, dispatchLog>>
    /\ UNCHANGED <<lost, uncaught, buildFailure>>
    /\ UNCHANGED <<playVars, cpVars, kernelVars, viewVars, groupVars>>

\* initWebGPU() returns null (no navigator.gpu, no adapter): init() returns
InitUnavailable ==
    /\ pendingInits > 0
    /\ pendingInits' = pendingInits - 1
    /\ UNCHANGED <<rMounted, enabled, atoms, meshRef, startedInits, nDevices, gpuContext,
                   bufs, inputBufferRef, outputBufferRef, pipelineRef, bindGroupRef,
                   setups, readbacks, meshShown, dispatchLog>>
    /\ UNCHANGED <<lost, uncaught, buildFailure>>
    /\ UNCHANGED <<playVars, cpVars, kernelVars, viewVars, groupVars>>

\* adapter.requestDevice() rejects (WebGpuContext.ts:36): initWebGPU() rejects,
\* the await of init() throws and nothing awaits or catches init() (248)
InitRefused ==
    /\ pendingInits > 0
    /\ pendingInits' = pendingInits - 1
    /\ uncaught' = uncaught \cup {"init"}
    /\ UNCHANGED <<rMounted, enabled, atoms, meshRef, startedInits, nDevices, gpuContext,
                   bufs, inputBufferRef, outputBufferRef, pipelineRef, bindGroupRef,
                   setups, readbacks, meshShown, dispatchLog>>
    /\ UNCHANGED <<lost, buildFailure>>
    /\ UNCHANGED <<playVars, cpVars, kernelVars, viewVars, groupVars>>

\* The device of the context is lost: the handler of device.lost
\* (WebGpuContext.ts:40-43) writes to the console
DeviceLost ==
    /\ rMounted
    /\ gpuContext # 0 /\ gpuContext \notin lost
    /\ lost' = lost \cup {gpuContext}
    /\ UNCHANGED <<rMounted, enabled, atoms, meshRef, pendingInits, startedInits, nDevices,
                   gpuContext, bufs, inputBufferRef, outputBufferRef, pipelineRef,
                   bindGroupRef, setups, readbacks, meshShown, dispatchLog>>
    /\ UNCHANGED <<uncaught, buildFailure>>
    /\ UNCHANGED <<playVars, cpVars, kernelVars, viewVars, groupVars>>

\* What the component returns (423-496): null while gpuContext is null, else
\* the chains of `atoms`, grouped and drawn by the host
RendererOutput == IF gpuContext = 0 THEN "nothing" ELSE "hostSide"

\* The parent renders the renderer with another atoms array (another frame
\* of the trajectory, or another trajectory): the effects on
\* [gpuContext, atoms] run again.
ChangeAtoms ==
    /\ rMounted
    /\ atoms.id < MaxAtomSets
    /\ \E l \in AtomLengths :
        /\ atoms' = [id |-> atoms.id + 1, len |-> l]
        /\ ContextEffects(gpuContext, [id |-> atoms.id + 1, len |-> l])
    /\ UNCHANGED <<rMounted, enabled, meshRef, pendingInits, startedInits, nDevices,
                   gpuContext, pipelineRef, bindGroupRef, readbacks, meshShown,
                   dispatchLog>>
    /\ UNCHANGED <<lost, uncaught, buildFailure>>
    /\ UNCHANGED <<playVars, cpVars, kernelVars, viewVars, groupVars>>

\* React attaches an InstancedMesh to meshRef.  The component renders
\* nothing while gpuContext is null.
AttachMesh ==
    /\ rMounted /\ gpuContext # 0 /\ ~meshRef
    /\ meshRef' = TRUE
    /\ UNCHANGED <<rMounted, enabled, atoms, pendingInits, startedInits, nDevices,
                   gpuContext, bufs, inputBufferRef, outputBufferRef, pipelineRef,
                   bindGroupRef, setups, readbacks, meshShown, dispatchLog>>
    /\ UNCHANGED <<lost, uncaught, buildFailure>>
    /\ UNCHANGED <<playVars, cpVars, kernelVars, viewVars, groupVars>>

\* setupPipeline() runs to its end: createAtomUpdatePipeline has returned,
\* the bind group is built from what the buffer refs hold now.
SetupResolves ==
    /\ \E i \in 1..Len(setups) :
        /\ setups' = SubSeq(setups, 1, i - 1) \o SubSeq(setups, i + 1, Len(setups))
        /\ pipelineRef' = setups[i].dev
    /\ bindGroupRef' = [in |-> inputBufferRef, out |-> outputBufferRef]
    /\ UNCHANGED <<rMounted, enabled, atoms, meshRef, pendingInits, startedInits, nDevices,
                   gpuContext, bufs, inputBufferRef, outputBufferRef, readbacks,
                   meshShown, dispatchLog>>
    /\ UNCHANGED <<lost, uncaught, buildFailure>>
    /\ UNCHANGED <<playVars, cpVars, kernelVars, viewVars, groupVars>>

\* fetch, response.text() or createAtomUpdatePipeline throws: caught (345-347)
SetupFails ==
    /\ \E i \in 1..Len(setups) :
        setups' = SubSeq(setups, 1, i - 1) \o SubSeq(setups, i + 1, Len(setups))
    /\ UNCHANGED <<rMounted, enabled, atoms, meshRef, pendingInits, startedInits, nDevices,
                   gpuContext, bufs, inputBufferRef, outputBufferRef, pipelineRef,
                   bindGroupRef, readbacks, meshShown, dispatchLog>>
    /\ buildFailure' = IF buildFailure = "none" THEN "failed" ELSE buildFailure
    /\ UNCHANGED <<lost, uncaught>>
    /\ UNCHANGED <<playVars, cpVars, kernelVars, viewVars, groupVars>>

\* runComputePass with bind group bg for n atoms: the kernel copies the input
\* buffer to the output buffer; a submit that names a destroyed buffer is
\* rejected by the device and writes nothing, and so does a dispatch of
\* ceil(0 / 64) = 0 workgroups.
AfterDispatch(bs, bg, n) ==
    IF n # 0 /\ IsLive(bs, bg.in) /\ IsLive(bs, bg.out)
    THEN [bs EXCEPT ![bg.out].content = bs[bg.in].content]
    ELSE bs

\* What a bind group names: a destroyed buffer, buffers the refs no longer
\* hold, or the current input/output pair
BindGroupStatus(bs, bg) ==
    IF ~(IsLive(bs, bg.in) /\ IsLive(bs, bg.out)) THEN "destroyed"
    ELSE IF bg # [in |-> inputBufferRef, out |-> outputBufferRef] THEN "stale"
    ELSE "current"

\* updateMesh() starts a readback unless the mesh or the output ref is null
\* (380): it has no other condition.
ReadbackStarts == meshRef /\ outputBufferRef # 0

\* The buffer copyBufferToBuffer reads (391)
CopySource == outputBufferRef

\* What copyBufferToBuffer (390-394) puts into the staging buffer.  Its submit
\* (395) follows the submit of runComputePass (computePipeline.ts:119) on the
\* same queue, so it reads buffers `after`, as the dispatch has left them, not
\* `before`; a destroyed source or a lost device copies nothing.
CopiedContentBug(before, after, src) ==
    IF gpuContext \notin lost /\ IsLive(before, src) THEN before[src].content ELSE 0
CopiedContent(before, after, src) ==
    IF gpuContext \notin lost /\ IsLive(after, src) THEN after[src].content ELSE 0

\* useFrame callback (357-416): returns unless context, pipeline and bind
\* group are set; else one runComputePass with bindGroupRef.current, then
\* updateMesh() up to its `await stagingBuffer.mapAsync`.  The commands
\* submitted to a lost device are not carried out.
Frame ==
    /\ rMounted
    /\ gpuContext # 0 /\ pipelineRef # 0 /\ bindGroupRef # NoBindGroup
    /\ LET bs == IF gpuContext \in lost
                 THEN bufs
                 ELSE AfterDispatch(bufs, bindGroupRef, atoms.len)
           src == CopySource
       IN  /\ dispatchLog' = BindGroupStatus(bufs, bindGroupRef)
           /\ IF ReadbackStarts
              THEN /\ Cardinality({i \in 1..Len(bufs) : bufs[i].kind = "staging"}) < MaxStaging
                   /\ bufs' = Append(bs, [kind |-> "staging", state |-> "mapPending",
                                          content |-> CopiedContent(bufs, bs, src)])
                   /\ readbacks' = Append(readbacks, [buf |-> Len(bs) + 1,
                                                      atomsId |-> atoms.id,
                                                      len |-> atoms.len,
                                                      dev |-> gpuContext])
              ELSE /\ bufs' = bs
                   /\ UNCHANGED readbacks
    /\ UNCHANGED <<rMounted, enabled, atoms, meshRef, pendingInits, startedInits, nDevices,
                   gpuContext, inputBufferRef, outputBufferRef, pipelineRef, bindGroupRef,
                   setups, meshShown>>
    /\ buildFailure' = IF buildFailure = "failed" THEN "dispatched" ELSE buildFailure
    /\ UNCHANGED <<lost, uncaught>>
    /\ UNCHANGED <<playVars, cpVars, kernelVars, viewVars, groupVars>>

\* mapAsync resolves (mappings resolve in the order of their submits): the
\* rest of updateMesh() runs and sets the matrices of the atoms.length
\* instances of its closure.  With meshRef.current null, line 408 or 410
\* throws before unmap() and destroy().
ReadbackResolves ==
    /\ readbacks # <<>>
    /\ Head(readbacks).dev \notin lost
    /\ LET r == Head(readbacks)
       IN  IF meshRef
           THEN /\ meshShown' = IF r.len # 0
                                THEN [content |-> bufs[r.buf].content, atomsId |-> r.atomsId]
                                ELSE meshShown
                /\ bufs' = Destroy(bufs, r.buf)
           ELSE /\ bufs' = Abandon(bufs, r.buf)
                /\ UNCHANGED meshShown
    /\ readbacks' = Tail(readbacks)
    /\ UNCHANGED <<rMounted, enabled, atoms, meshRef, pendingInits, startedInits, nDevices,
                   gpuContext, inputBufferRef, outputBufferRef, pipelineRef, bindGroupRef,
                   setups, dispatchLog>>
    /\ uncaught' = IF meshRef THEN uncaught ELSE uncaught \cup {"updateMesh"}
    /\ UNCHANGED <<lost, buildFailure>>
    /\ UNCHANGED <<playVars, cpVars, kernelVars, viewVars, groupVars>>

\* mapAsync rejects: the await throws out of updateMesh(), nothing catches it
ReadbackRejects ==
    /\ readbacks # <<>>
    /\ bufs' = Abandon(bufs, Head(readbacks).buf)
    /\ readbacks' = Tail(readbacks)
    /\ UNCHANGED <<rMounted, enabled, atoms, meshRef, pendingInits, startedInits, nDevices,
                   gpuContext, inputBufferRef, outputBufferRef, pipelineRef, bindGroupRef,
                   setups, meshShown, dispatchLog>>
    /\ uncaught' = uncaught \cup {"updateMesh"}
    /\ UNCHANGED <<lost, buildFailure>>
    /\ UNCHANGED <<playVars, cpVars, kernelVars, viewVars, groupVars>>

\* The parent toggles `enabled`: the cleanup of the init effect runs, then
\* its body, which calls init() when enabled.
ToggleEnabled ==
    /\ rMounted
    /\ enabled \/ startedInits < MaxInits
    /\ enabled' = ~enabled
    /\ bufs' = InitCleanup(bufs)
    /\ IF ~enabled
       THEN /\ pendingInits' = pendingInits + 1
            /\ startedInits' = startedInits + 1
       ELSE UNCHANGED <<pendingInits, startedInits>>
    /\ UNCHANGED <<rMounted, atoms, meshRef, nDevices, gpuContext, inputBufferRef,
                   outputBufferRef, pipelineRef, bindGroupRef, setups, readbacks,
                   meshShown, dispatchLog>>
    /\ UNCHANGED <<lost, uncaught, buildFailure>>
    /\ UNCHANGED <<playVars, cpVars, kernelVars, viewVars, groupVars>>

\* The renderer is unmounted: the cleanup of the init effect runs, React
\* sets the ref of the mesh to null, the frame callback is unsubscribed.
UnmountRenderer ==
    /\ rMounted
    /\ rMounted' = FALSE
    /\ meshRef' = FALSE
    /\ bufs' = InitCleanup(bufs)
    /\ UNCHANGED <<enabled, atoms, pendingInits, startedInits, nDevices, gpuContext,
                   inputBufferRef, outputBufferRef, pipelineRef, bindGroupRef, setups,
                   readbacks, meshShown, dispatchLog>>
    /\ UNCHANGED <<lost, uncaught, buildFailure>>
    /\ UNCHANGED <<playVars, cpVars, kernelVars, viewVars, groupVars>>

\* =======================================================================
\*  atomUpdate.wgsl
\* =======================================================================
\* A vec4<f32> is modelled by a number; 0 is the content of a buffer nothing
\* has been written to, the positions of the input are 1..3.  Arrays are
\* sequences: element i of the kernel is element i + 1 of the sequence.

\* arrayLength(&atomsIn)
ArrayLength(arr) == Len(arr)

\* if atomIndex >= arrayLength(&atomsIn) { return; }
ReturnsEarlyBug(atomIndex, arr) == atomIndex > ArrayLength(arr)
ReturnsEarly(atomIndex, arr) == atomIndex >= ArrayLength(arr)

\* atomsIn[atomIndex]: an index out of the bounds of a runtime-sized array
\* loads zero or any element of the array
LoadValues(arr, i) ==
    IF i < ArrayLength(arr)
    THEN {arr[i + 1]}
    ELSE {0} \cup {arr[j] : j \in 1..Len(arr)}

\* atomsOut[atomIndex] = v: a store out of the bounds of the array is not
\* carried out on the element it names
StoreAt(arr, i, v) ==
    IF i < ArrayLength(arr) THEN [arr EXCEPT ![i + 1] = v] ELSE arr

\* dispatchWorkgroups(numWorkgroups) with @workgroup_size(64)
Invocations(count) == NumWorkgroups(count) * workgroupSize

\* The device runs the invocations of a dispatch in an order of its own;
\* the k-th to run has the global invocation id (k * kStride) % total, a
\* permutation of 0..total-1 because total is a multiple of 64 and kStride
\* is odd.
InvocationId(k) == (k * kStride) % Invocations(Len(atomsIn))

\* The positions written by createStorageBuffer: pattern p of length n
Positions(n, p) == [i \in 1..n |-> ((i * p) % 3) + 1]

InitKernel ==
    /\ \E n \in 1..MaxParticles, p \in PositionPatterns : atomsIn = Positions(n, p)
    /\ atomsOut = [i \in 1..Len(atomsIn) |-> 0]
    /\ kStride \in InvocationStrides
    /\ kStep = 0
    /\ kStored = {}

IdleKernel ==
    /\ atomsIn = <<>>
    /\ atomsOut = <<>>
    /\ kStride = 1
    /\ kStep = 0
    /\ kStored = {}

\* One invocation of main (atomUpdate.wgsl:51-69)
Invoke ==
    /\ kStep < Invocations(Len(atomsIn))
    /\ kStep' = kStep + 1
    /\ LET atomIndex == InvocationId(kStep)
       IN  IF ReturnsEarly(atomIndex, atomsIn)
           THEN UNCHANGED <<atomsOut, kStored>>
           ELSE \E currentPosition \in LoadValues(atomsIn, atomIndex) :
                    /\ atomsOut' = StoreAt(atomsOut, atomIndex, currentPosition)
                    /\ kStored' = kStored \cup {atomIndex}
    /\ UNCHANGED <<atomsIn, kStride>>
    /\ UNCHANGED <<playVars, cpVars, gpuVars, viewVars, groupVars>>

\* =======================================================================
\*  MolecularView
\* =======================================================================
\* An atom is [chain, name, residue, residue_index]; the chain id of a parsed
\* atom is column 22 of its line, trimmed: one character or the empty string.
\* residue_index is <<>> when the property is undefined, else <<its value>>.

\* selectedChain = null
NoSelection == "<null>"

\* `atoms` when the trajectory has no frame of the current index
NoAtoms == [defined |-> FALSE, list |-> <<>>]

\* Every frame of at most MaxChainAtoms atoms
Frames == UNION {[1..n -> AtomKinds] : n \in 0..MaxChainAtoms}

\* uniqueResidues: a Set the residue_index of every atom that has one is
\* added to (chainMetadata.ts:34-39)
RECURSIVE UniqueResidues(_, _)
UniqueResidues(chainAtoms, set) ==
    IF chainAtoms = <<>>
    THEN set
    ELSE UniqueResidues(Tail(chainAtoms),
                        IF Head(chainAtoms).residue_index # <<>>
                        THEN set \cup {Head(chainAtoms).residue_index[1]}
                        ELSE set)

\* const residueCount = uniqueResidues.size
ResidueCountBug(chainAtoms) ==
    Cardinality({i \in 1..Len(chainAtoms) : chainAtoms[i].residue_index # <<>>})
ResidueCount(chainAtoms) == Cardinality(UniqueResidues(chainAtoms, {}))

\* minResidue = Math.min(minResidue, atom.residue_index) over the atoms that
\* have one, from Infinity (43-50); <<>> stands for Infinity
RECURSIVE MinResidue(_, _)
MinResidue(chainAtoms, acc) ==
    IF chainAtoms = <<>>
    THEN acc
    ELSE LET r == Head(chainAtoms).residue_index
         IN  MinResidue(Tail(chainAtoms),
                        IF r = <<>> THEN acc
                        ELSE IF acc = <<>> \/ r[1] < acc[1] THEN r ELSE acc)

\* maxResidue = Math.max(maxResidue, atom.residue_index), from -Infinity
RECURSIVE MaxResidue(_, _)
MaxResidue(chainAtoms, acc) ==
    IF chainAtoms = <<>>
    THEN acc
    ELSE LET r == Head(chainAtoms).residue_index
         IN  MaxResidue(Tail(chainAtoms),
                        IF r = <<>> THEN acc
                        ELSE IF acc = <<>> \/ r[1] > acc[1] THEN r ELSE acc)

\* start: minResidue === Infinity ? 0 : minResidue, end alike (70-73)
ResidueRange(chainAtoms) ==
    LET minResidue == MinResidue(chainAtoms, <<>>)
        maxResidue == MaxResidue(chainAtoms, <<>>)
    IN  [start |-> IF minResidue = <<>> THEN 0 ELSE minResidue[1],
         end |-> IF maxResidue = <<>> THEN 0 ELSE maxResidue[1]]

\* residueFrequency[resName] = (residueFrequency[resName] || 0) + 1 (54-58):
\* the object as [keys, count], keys in the order the properties were created
RECURSIVE ResidueFrequency(_, _)
ResidueFrequency(chainAtoms, freq) ==
    IF chainAtoms = <<>>
    THEN freq
    ELSE LET resName == Head(chainAtoms).residue
         IN  ResidueFrequency(Tail(chainAtoms),
                 IF resName \in DOMAIN freq.count
                 THEN [freq EXCEPT !.count[resName] = @ + 1]
                 ELSE [keys |-> Append(freq.keys, resName),
                       count |-> freq.count @@ (resName :> 1)])

\* The property names that are canonical array indices, with their values
IndexKeyValue == ("144" :> 144)

\* keys in ascending order of their index value
RECURSIVE AscendingIndexKeys(_)
AscendingIndexKeys(keys) ==
    IF keys = {}
    THEN <<>>
    ELSE LET k == CHOOSE x \in keys : \A y \in keys : IndexKeyValue[x] <= IndexKeyValue[y]
         IN  <<k>> \o AscendingIndexKeys(keys \ {k})

IsStringKey(k) == k \notin DOMAIN IndexKeyValue

\* Object.entries(residueFrequency): the array-index keys in ascending
\* numeric order, then the other keys in the order of their creation
ObjectEntries(freq) ==
    LET order == AscendingIndexKeys({freq.keys[i] : i \in 1..Len(freq.keys)}
                                    \cap DOMAIN IndexKeyValue)
                 \o SelectSeq(freq.keys, IsStringKey)
    IN  [i \in 1..Len(order) |-> [name |-> order[i], n |-> freq.count[order[i]]]]

\* .sort(([, a], [, b]) => b - a): a stable sort, descending by frequency
RECURSIVE SortByFrequency(_, _)
SortByFrequency(entries, sorted) ==
    IF entries = <<>>
    THEN sorted
    ELSE LET e == Head(entries)
             before == SelectSeq(sorted, LAMBDA x : x.n >= e.n)
             after == SelectSeq(sorted, LAMBDA x : x.n < e.n)
         IN  SortByFrequency(Tail(entries), before \o <<e>> \o after)

\* .slice(0, 5)
TopResidues == 5

\* .slice(0, 5).map(([name]) => name)
CommonResidues(chainAtoms) ==
    LET sorted == SortByFrequency(
                      ObjectEntries(ResidueFrequency(chainAtoms,
                                                     [keys |-> <<>>, count |-> <<>>])),
                      <<>>)
        top == SubSeq(sorted, 1, IF Len(sorted) < TopResidues
                                 THEN Len(sorted) ELSE TopResidues)
    IN  [i \in 1..Len(top) |-> top[i].name]

\* The object calculateChainInfo returns (66-75) for an atom count
ChainInfoOf(chainAtoms, chainId, atomCount) ==
    [chainId |-> chainId,
     atomCount |-> atomCount,
     residueCount |-> ResidueCount(chainAtoms),
     residueRange |-> ResidueRange(chainAtoms),
     commonResidues |-> CommonResidues(chainAtoms)]

\* calculateChainInfo(atoms, chainId): const atomCount = atoms.length
CalculateChainInfoBug(chainAtoms, chainId) ==
    ChainInfoOf(chainAtoms, chainId, Len(chainAtoms) - 1)
CalculateChainInfo(chainAtoms, chainId) ==
    ChainInfoOf(chainAtoms, chainId, Len(chainAtoms))

\* atoms.forEach(atom => { if (!chainGroups[atom.chain]) chainGroups[atom.chain] = [];
\*                         chainGroups[atom.chain].push(atom); })
RECURSIVE GroupByChain(_, _)
GroupByChain(list, chainGroups) ==
    IF list = <<>>
    THEN chainGroups
    ELSE LET atom == Head(list)
             groups == IF atom.chain \in DOMAIN chainGroups
                       THEN chainGroups
                       ELSE chainGroups @@ (atom.chain :> <<>>)
         IN  GroupByChain(Tail(list), [groups EXCEPT ![atom.chain] = Append(@, atom)])

\* The useMemo of part_007:265-282
ChainMetadataMap(a) ==
    IF ~a.defined
    THEN <<>>
    ELSE LET chainGroups == GroupByChain(a.list, <<>>)
         IN  [chainId \in DOMAIN chainGroups |->
                 CalculateChainInfo(chainGroups[chainId], chainId)]

\* selectedChain ? chainMetadataMap[selectedChain] : null, as a sequence:
\* <<>> for null or undefined, <<info>> for a ChainInfo.  null and the empty
\* string are falsy.
LookupBug(sel, map) ==
    IF sel \in {NoSelection, ""} \/ DOMAIN map = {}
    THEN <<>>
    ELSE << map[IF sel \in DOMAIN map THEN sel ELSE CHOOSE c \in DOMAIN map : TRUE] >>
Lookup(sel, map) ==
    IF sel \in {NoSelection, ""}
    THEN <<>>
    ELSE IF sel \in DOMAIN map THEN << map[sel] >> ELSE <<>>

onSelectInfo == Lookup(selectedChain, chainMetadataMap)

\* ChainInfoPanel: if (!chainInfo) return null
ChainInfoPanel(chainInfo) == IF chainInfo = <<>> THEN "nothing" ELSE "panel"

\* BackboneView draws a clickable group per chain that has a CA atom
ClickableChains(a) == {a.list[i].chain : i \in {j \in 1..Len(a.list) : a.list[j].name = "CA"}}

InitView ==
    /\ viewAtoms \in {[defined |-> TRUE, list |-> f] : f \in Frames}
    /\ chainMetadataMap = ChainMetadataMap(viewAtoms)
    /\ selectedChain = NoSelection
    /\ viewEvent = "init"

IdleView ==
    /\ viewAtoms = NoAtoms
    /\ chainMetadataMap = <<>>
    /\ selectedChain = NoSelection
    /\ viewEvent = "init"

\* The parent renders the view with other props: another frame of the
\* trajectory ("frame") or another trajectory ("load").  The memo is
\* computed anew; nothing in the view writes selectedChain.
RenderAtoms ==
    /\ \E a \in {[defined |-> TRUE, list |-> f] : f \in Frames} \cup {NoAtoms} :
        /\ a # viewAtoms
        /\ viewAtoms' = a
        /\ chainMetadataMap' = ChainMetadataMap(a)
    /\ viewEvent' \in {"frame", "load"}
    /\ UNCHANGED selectedChain
    /\ UNCHANGED <<playVars, cpVars, gpuVars, kernelVars, groupVars>>

\* handleChainSelect, called by the onClick of a chain group of BackboneView
SelectChain ==
    /\ \E chainId \in ClickableChains(viewAtoms) : selectedChain' = chainId
    /\ viewEvent' = "select"
    /\ UNCHANGED <<viewAtoms, chainMetadataMap>>
    /\ UNCHANGED <<playVars, cpVars, gpuVars, kernelVars, groupVars>>

\* handleChainDeselect, handed to the child as onDeselect
DeselectChain ==
    /\ viewAtoms.defined
    /\ selectedChain' = NoSelection
    /\ viewEvent' = "deselect"
    /\ UNCHANGED <<viewAtoms, chainMetadataMap>>
    /\ UNCHANGED <<playVars, cpVars, gpuVars, kernelVars, groupVars>>

\* =======================================================================
\*  chainMetadataMap called on one frame
\* =======================================================================

\* Every frame: the empty head or FiveResidues, then at most MaxGroupAtoms atoms
GroupFrames ==
    {head \o tail : head \in {<<>>, FiveResidues},
                    tail \in UNION {[1..n -> GroupAtomKinds] : n \in 0..MaxGroupAtoms}}

\* What the computation leaves of the atoms array: forEach and push read it,
\* the sort is applied to the array Object.entries returns
AtomsAfterGroupingBug(list) == [i \in 1..Len(list) |-> list[Len(list) + 1 - i]]
AtomsAfterGrouping(list) == list

InitGroups ==
    /\ gFrame \in GroupFrames
    /\ gFrame0 = gFrame
    /\ gResults = <<>>

IdleGroups ==
    /\ gFrame = <<>>
    /\ gFrame0 = <<>>
    /\ gResults = <<>>

\* One evaluation of the useMemo callback (part_007:265-282) on the frame
ComputeGroups ==
    /\ Len(gResults) < MaxCalls
    /\ gResults' = Append(gResults, ChainMetadataMap([defined |-> TRUE, list |-> gFrame]))
    /\ gFrame' = AtomsAfterGrouping(gFrame)
    /\ UNCHANGED gFrame0
    /\ UNCHANGED <<playVars, cpVars, gpuVars, kernelVars, viewVars>>

\* =======================================================================
\*  Specifications
\* =======================================================================
Init == InitPlay /\ IdleCp /\ IdleGpu /\ IdleKernel /\ IdleView /\ IdleGroups

Next ==
    \/ FlushEffects
    \/ Tick
    \/ TogglePlay
    \/ SliderChange
    \/ DropFiles
    \/ ReadAbort
    \/ ReadError
    \/ ReadLoaded
    \/ LoadTrajectory
    \/ ParseThrows
    \/ Unmount

Spec == Init /\ [][Next]_vars

\* The playground with its scheduling: a timer set by setInterval keeps firing
\* until it is cleared, and React runs the passive effects of a commit
SpecFair == Init /\ [][Next]_vars /\ WF_vars(Tick) /\ WF_vars(FlushEffects)

InitDispatch == IdlePlay /\ InitCp /\ IdleGpu /\ IdleKernel /\ IdleView /\ IdleGroups

NextDispatch == RunComputePass

SpecDispatch == InitDispatch /\ [][NextDispatch]_vars

InitRenderer == IdlePlay /\ IdleCp /\ InitGpu /\ IdleKernel /\ IdleView /\ IdleGroups

NextGpu ==
    \/ InitResolves
    \/ InitUnavailable
    \/ InitRefused
    \/ DeviceLost
    \/ ChangeAtoms
    \/ AttachMesh
    \/ SetupResolves
    \/ SetupFails
    \/ Frame
    \/ ReadbackResolves
    \/ ReadbackRejects
    \/ ToggleEnabled
    \/ UnmountRenderer

SpecGpu == InitRenderer /\ [][NextGpu]_vars

\* The renderer whose `enabled` prop stays true: every step of SpecGpu but
\* the toggle
NextFrames ==
    \/ InitResolves
    \/ InitUnavailable
    \/ InitRefused
    \/ DeviceLost
    \/ ChangeAtoms
    \/ AttachMesh
    \/ SetupResolves
    \/ SetupFails
    \/ Frame
    \/ ReadbackResolves
    \/ ReadbackRejects
    \/ UnmountRenderer

SpecFrames == InitRenderer /\ [][NextFrames]_vars

InitDispatchKernel == IdlePlay /\ IdleCp /\ IdleGpu /\ InitKernel /\ IdleView /\ IdleGroups

NextKernel == Invoke

SpecKernel == InitDispatchKernel /\ [][NextKernel]_vars

InitMolecularView == IdlePlay /\ IdleCp /\ IdleGpu /\ IdleKernel /\ InitView /\ IdleGroups

NextView ==
    \/ RenderAtoms
    \/ SelectChain
    \/ DeselectChain

SpecView == InitMolecularView /\ [][NextView]_vars

InitChainGroups == IdlePlay /\ IdleCp /\ IdleGpu /\ IdleKernel /\ IdleView /\ InitGroups

NextGroups == ComputeGroups

SpecGroups == InitChainGroups /\ [][NextGroups]_vars

\* =======================================================================
\*  Playback scheduler
\* =======================================================================

\* C1: every tick of the playback timer takes the frame index from i to
\* (i + 1) modulo the frame count of the trajectory on display; from the
\* last frame it yields 0.
C1_TickAdvancesModulo ==
    [][lastEvent' = "tick" =>
         /\ isPlaying
         /\ currentFrame \in 0..(totalFrames - 1)
         /\ currentFrame' = (currentFrame + 1) % totalFrames
         /\ (currentFrame = totalFrames - 1 => currentFrame' = 0)]_vars

\* A tick has taken a five-frame trajectory from index 4 to index 0
C1_Witness ==
    /\ lastEvent = "tick"
    /\ totalFrames = 5
    /\ prevFrame = 4
    /\ currentFrame = 0

\* C2: once playback is cancelled (paused, or the view unmounted) no timer
\* callback runs until playback is started again.
C2_NoTickAfterCancel ==
    [][(~mounted \/ ~isPlaying) => lastEvent' # "tick"]_vars

\* Playback was paused after the timer had advanced the index, and the timer
\* is gone
C2_Witness ==
    /\ lastEvent = "toggle"
    /\ mounted
    /\ ~isPlaying
    /\ currentFrame > 0
    /\ timers = {}

\* C3: the effects that follow the replacement of the trajectory leave the
\* frame index at 0 and playback playing, whatever they were before.
C3_LoadResets ==
    [][(lastEvent = "load" /\ mounted') => (currentFrame' = 0 /\ isPlaying')]_vars

\* A trajectory was loaded while playback was paused at a frame other than 0
\* (no timer exists yet), and the effects have reset the index and started
\* playback
C3_Witness ==
    /\ lastEvent = "effects"
    /\ trajectory.id # 0
    /\ prevFrame > 0
    /\ timers = {}
    /\ currentFrame = 0
    /\ isPlaying

\* =======================================================================
\*  GPUAtomRenderer
\* =======================================================================

Live(kind) == {i \in 1..Len(bufs) : bufs[i].kind = kind /\ bufs[i].state = "live"}

C5_OneLivePair == Cardinality(Live("in")) <= 1 /\ Cardinality(Live("out")) <= 1

\* C6: every dispatch of the frame callback runs with a bind group of the
\* current input/output pair, none of them destroyed.
C6_DispatchUsesCurrentPair == dispatchLog \in {"none", "current"}

C9_TeardownReleasesAll ==
    ~rMounted =>
        /\ readbacks = <<>>
        /\ \A i \in 1..Len(bufs) : bufs[i].state = "destroyed"
        /\ nDevices = 0

\* C12: when no device can be acquired, init() ends without an unhandled
\* rejection and the component still draws the current frame on the host
\* side.
C12_UnavailableFallsBack ==
    /\ "init" \notin uncaught
    /\ (rMounted /\ enabled /\ pendingInits = 0 /\ gpuContext = 0)
           => RendererOutput = "hostSide"

\* C13: once its device is lost the context is no longer held as a valid
\* one, no frame callback or readback ends in an unhandled rejection and the
\* mesh keeps what it showed.
C13_LossInvalidatesContext ==
    /\ [](gpuContext \notin lost)
    /\ [][lost # {} => uncaught' \subseteq uncaught]_vars
    /\ [][(gpuContext \in lost) => meshShown' = meshShown]_vars

\* C14: after a setupPipeline() has failed no dispatch is issued, also when
\* the pipeline and bind group of an earlier build are still in the refs.
C14_NoDispatchAfterBuildFailure == buildFailure # "dispatched"

\* C15: no device-related failure leaves init(), setupPipeline() or the
\* frame callback as an unhandled rejection or an uncaught exception.
C15_FailuresCaught == uncaught = {}

\* =======================================================================
\*  runComputePass
\* =======================================================================

\* C10: one dispatch call with ceil(atomCount / 64) workgroups: the
\* invocations cover atomCount and exceed it by fewer than 64; 1, 63, 64, 65
\* and 10000 atoms give 1, 1, 1, 2 and 157 workgroups.
C10_CeilWorkgroups ==
    cpDispatched # <<>> =>
        /\ Len(cpDispatched) = 1
        /\ cpDispatched[1] * 64 >= cpAtomCount
        /\ cpDispatched[1] * 64 - cpAtomCount < 64
        /\ (cpAtomCount \in {1, 63, 64} => cpDispatched[1] = 1)
        /\ (cpAtomCount = 65 => cpDispatched[1] = 2)
        /\ (cpAtomCount = 10000 => cpDispatched[1] = 157)

\* runComputePass has dispatched 157 workgroups for 10000 atoms
C10_Witness == cpAtomCount = 10000 /\ cpDispatched = <<157>>

\* =======================================================================
\*  atomUpdate.wgsl
\* =======================================================================

\* C11: in one dispatch over ceil(count / 64) * 64 invocations no store is
\* issued for an index outside 0..count-1, an index that has been stored
\* holds the input element of the same index and every other element is
\* untouched; when all invocations have run the output equals the input on
\* every particle index.
C11_KernelPassThrough ==
    /\ kStored \subseteq 0..(Len(atomsIn) - 1)
    /\ Len(atomsOut) = Len(atomsIn)
    /\ \A i \in 0..(Len(atomsIn) - 1) :
        atomsOut[i + 1] = IF i \in kStored THEN atomsIn[i + 1] ELSE 0
    /\ kStep = Invocations(Len(atomsIn)) =>
        (kStored = 0..(Len(atomsIn) - 1) /\ atomsOut = atomsIn)

\* A dispatch of two workgroups for 65 atoms has run all its 128 invocations,
\* 63 of them out of range, in an order other than the ascending one
C11_Witness ==
    /\ Len(atomsIn) = 65
    /\ kStep = 128
    /\ kStride = 3
    /\ atomsOut = atomsIn

\* =======================================================================
\*  MolecularView
\* =======================================================================

AtomsOfChain(c) == {i \in 1..Len(viewAtoms.list) : viewAtoms.list[i].chain = c}

RECURSIVE SumAtomCounts(_, _)
SumAtomCounts(map, ids) ==
    IF ids = {}
    THEN 0
    ELSE LET c == CHOOSE x \in ids : TRUE
         IN  map[c].atomCount + SumAtomCounts(map, ids \ {c})

\* C16: the map has an entry for exactly the chain ids that occur in the
\* frame, the atomCount of an entry is the number of atoms of the frame with
\* that chain id, and the atomCounts add up to the length of the frame; a
\* frame of three atoms with chain "A" on two of them gives atomCount 2.
C16_AtomCountPerChain ==
    viewAtoms.defined =>
        /\ DOMAIN chainMetadataMap = {viewAtoms.list[i].chain : i \in 1..Len(viewAtoms.list)}
        /\ \A c \in DOMAIN chainMetadataMap :
            /\ chainMetadataMap[c].chainId = c
            /\ chainMetadataMap[c].atomCount = Cardinality(AtomsOfChain(c))
        /\ SumAtomCounts(chainMetadataMap, DOMAIN chainMetadataMap) = Len(viewAtoms.list)
        /\ (Len(viewAtoms.list) = 3 /\ Cardinality(AtomsOfChain("A")) = 2
               => chainMetadataMap["A"].atomCount = 2)

\* The view shows a frame of three atoms, two of chain "A" and one of chain
\* "B", that it was given after another frame
C16_Witness ==
    /\ viewEvent = "frame"
    /\ Len(viewAtoms.list) = 3
    /\ Cardinality(AtomsOfChain("A")) = 2
    /\ Cardinality(AtomsOfChain("B")) = 1
    /\ chainMetadataMap["A"].atomCount = 2

\* C17: when the selected chain id has no atom in the frame on display the
\* lookup yields no ChainInfo and the panel renders nothing.
C17_AbsentChainNoInfo ==
    (selectedChain # NoSelection /\ AtomsOfChain(selectedChain) = {}) =>
        /\ onSelectInfo = <<>>
        /\ ChainInfoPanel(onSelectInfo) = "nothing"

\* Chain "A" was selected in an earlier frame; the frame on display has
\* atoms, none of chain "A", and came with another trajectory
C17_Witness ==
    /\ selectedChain = "A"
    /\ viewEvent = "load"
    /\ viewAtoms.defined /\ viewAtoms.list # <<>>
    /\ AtomsOfChain("A") = {}
    /\ onSelectInfo = <<>>

\* C18: after the trajectory has been replaced no chain is selected.
C18_LoadClearsSelection == viewEvent = "load" => selectedChain = NoSelection

\* =======================================================================
\*  FileUploader
\* =======================================================================

C20_FailedLoadKeepsStore ==
    [][lastEvent' \in {"abort", "error", "parseError"} =>
         UNCHANGED <<trajectory, currentFrame, isPlaying>>]_vars

\* The parser has thrown while the bundled trajectory was playing at a frame
\* other than 0: trajectory, index and playback are as before
C20_Witness ==
    /\ lastEvent = "parseError"
    /\ mounted
    /\ trajectory.id = 0
    /\ currentFrame > 0
    /\ currentFrame = prevFrame
    /\ isPlaying

\* -----------------------------------------------------------------------
\*  Chain metadata of one frame
\* -----------------------------------------------------------------------

\* The positions of the frame whose atom is of the chain
PositionsOfChain(chainId) == {i \in 1..Len(gFrame0) : gFrame0[i].chain = chainId}

\* The residue_index values the atoms of the chain have
IndicesOfChain(chainId) ==
    {gFrame0[i].residue_index[1] :
        i \in {j \in PositionsOfChain(chainId) : gFrame0[j].residue_index # <<>>}}

\* How many atoms of the chain have the residue name
FrequencyInChain(chainId, resName) ==
    Cardinality({i \in PositionsOfChain(chainId) : gFrame0[i].residue = resName})

\* The position of the first atom of the chain that has the residue name
FirstEncountered(chainId, resName) ==
    CHOOSE i \in PositionsOfChain(chainId) :
        /\ gFrame0[i].residue = resName
        /\ \A j \in PositionsOfChain(chainId) : gFrame0[j].residue = resName => i <= j

\* C21: for every chain group, residueCount is the number of distinct
\* residue_index values of the atoms of the group that have one, residueRange
\* is the least and the greatest of them, and {0,0} when no atom of the group
\* has a residue_index.
C21_ResidueCountAndRange ==
    \A k \in 1..Len(gResults) : \A c \in DOMAIN gResults[k] :
        LET info == gResults[k][c]
            idx == IndicesOfChain(c)
        IN  /\ info.residueCount = Cardinality(idx)
            /\ IF idx = {}
               THEN info.residueRange = [start |-> 0, end |-> 0]
               ELSE /\ info.residueRange.start \in idx
                    /\ info.residueRange.end \in idx
                    /\ \A x \in idx : info.residueRange.start <= x /\ x <= info.residueRange.end

\* The metadata has been computed for a frame of three atoms of chain "A"
\* with index 2, no index, and index 2 again: one residue, range 2..2
C21_Witness ==
    /\ Len(gResults) >= 1
    /\ Len(gFrame0) = 3
    /\ \A i \in 1..3 : gFrame0[i].chain = "A"
    /\ gFrame0[1].residue_index = <<2>>
    /\ gFrame0[2].residue_index = <<>>
    /\ gFrame0[3].residue_index = <<2>>
    /\ gResults[1]["A"].residueCount = 1
    /\ gResults[1]["A"].residueRange = [start |-> 2, end |-> 2]

\* C22: commonResidues lists at most five residue names, all distinct, in
\* descending frequency within the group, names of equal frequency in the
\* order they are first encountered in the frame, and no name that is more
\* frequent than a listed name is left out.
C22_TopFiveByFrequency ==
    \A k \in 1..Len(gResults) : \A c \in DOMAIN gResults[k] :
        LET cr == gResults[k][c].commonResidues
            listed == {cr[i] : i \in 1..Len(cr)}
            names == {gFrame0[i].residue : i \in PositionsOfChain(c)}
        IN  /\ Len(cr) <= 5
            /\ \A i, j \in 1..Len(cr) : i # j => cr[i] # cr[j]
            /\ listed \subseteq names
            /\ \A i, j \in 1..Len(cr) :
                  i < j =>
                     \/ FrequencyInChain(c, cr[i]) > FrequencyInChain(c, cr[j])
                     \/ /\ FrequencyInChain(c, cr[i]) = FrequencyInChain(c, cr[j])
                        /\ FirstEncountered(c, cr[i]) < FirstEncountered(c, cr[j])
            /\ \A n \in names \ listed : \A m \in listed :
                  FrequencyInChain(c, n) <= FrequencyInChain(c, m)
            /\ Len(cr) = (IF Cardinality(names) < 5 THEN Cardinality(names) ELSE 5)

C27_NoIndexIsDistinct ==
    \A k \in 1..Len(gResults) : \A c, d \in DOMAIN gResults[k] :
        (IndicesOfChain(c) = {} /\ IndicesOfChain(d) = {0})
            => gResults[k][c].residueRange # gResults[k][d].residueRange

\* -----------------------------------------------------------------------
\*  Playback loop, frame index, timer and loading flag
\* -----------------------------------------------------------------------

\* While the view is mounted and playing and no effect is outstanding, a
\* timer is set: there is no state the playback ends in
NoTerminalState == [](mounted /\ isPlaying /\ ~EffectsPending => timers # {})

\* C24 as stated: if from some point on the view stays mounted and playback
\* is not paused, there is no terminal state and every frame index of the
\* trajectory is displayed infinitely often.
C24_LoopsWhilePlaying ==
    /\ NoTerminalState
    /\ <>[](mounted /\ isPlaying)
          => \A i \in 0..(MaxFrames - 1) : []<>(i < totalFrames => currentFrame = i)

\* C24, amended: if from some point on the view stays mounted, playback is
\* not paused and the slider is not moved, there is no terminal state and
\* every frame index of the trajectory is displayed infinitely often.
C24_LoopsWhilePlayingUndisturbed ==
    /\ NoTerminalState
    /\ <>[](mounted /\ isPlaying /\ lastEvent # "slider")
          => \A i \in 0..(MaxFrames - 1) : []<>(i < totalFrames => currentFrame = i)

\* A tick has wrapped a playing three-frame trajectory from its last frame
\* to frame 0 and the timer is still set
C24_Witness ==
    /\ lastEvent = "tick"
    /\ mounted /\ isPlaying
    /\ totalFrames = 3
    /\ prevFrame = 2
    /\ currentFrame = 0
    /\ timers # {}

\* C25: a device is requested at most once per session unless the previous
\* context was lost: the devices handed out so far are at most one more than
\* the contexts lost so far.
C25_DeviceAcquiredOnce == nDevices <= 1 + Cardinality(lost)

\* A step of the frame callback that has started a readback
FrameStartsReadback == Len(readbacks') = Len(readbacks) + 1

C28_FrameIndexInRange ==
    (mounted /\ totalFrames >= 1) => currentFrame \in 0..(totalFrames - 1)

\* C29 as stated: at most one interval timer is active at any time, and one
\* is active exactly when isPlaying is true.
C29_OneTimerIffPlaying ==
    /\ Cardinality(timers) <= 1
    /\ mounted => (timers # {} <=> isPlaying)

\* C29, amended: at most one interval timer is active at any time; once the
\* effects of the last commit have run, one is active exactly when isPlaying
\* is true, and it holds the frame count of the trajectory on display; every
\* run of the timer effect clears the timer of the run before, so that a
\* tick advances the index by one step of the current frame count.
C29_OneTimerIffPlayingSettled ==
    /\ [](Cardinality(timers) <= 1)
    /\ []((mounted /\ ~EffectsPending) =>
             /\ timers # {} <=> isPlaying
             /\ \A t \in timers : t.id = effInterval /\ t.n = totalFrames)
    /\ [][lastEvent' = "tick" =>
             /\ timers = {[id |-> effInterval, n |-> totalFrames]}
             /\ mounted => currentFrame' = (currentFrame + 1) % totalFrames]_vars

\* A file has been loaded while the bundled trajectory of more than one frame
\* was playing, the effects have run, and a tick of the one timer, set for the
\* frame count 1 of the new trajectory, has kept the index at 0
C29_Witness ==
    /\ lastEvent = "tick"
    /\ mounted /\ isPlaying
    /\ trajectory.id # 0
    /\ totalFrames = 1
    /\ timers = {[id |-> effInterval, n |-> 1]}
    /\ currentFrame = 0

\* C30: the loading flag is true exactly while an upload is being read or
\* parsed: it does not become false while another file is still in progress.
C30_LoadingWhileUploading ==
    mounted => (isLoading <=> reading + parsing > 0)

====
